---- MODULE Spec2Model ----
(***************************************************************************)
(* Model of sabotack/P6:                                                   *)
(*   p6/linearOptimization/LinearOptimization.py  runLinearOptimizationModel*)
(*   p6/utils/data.py                             readFlows, _mergeResults  *)
(*                                                                         *)
(* Two state machines share the module.  Spec is one call of               *)
(* runLinearOptimizationModel(model, links, flows, traffic); SpecFlows is  *)
(* one call of readFlows.  Numbers Python holds as floats are exact        *)
(* rationals <<numerator, denominator>> here.  The Gurobi solver is        *)
(* external: Optimize lets it answer with any status it can return, and    *)
(* on OPTIMAL with any minimiser of the registered objective among the     *)
(* assignments of a finite grid that satisfy the registered constraints.   *)
(***************************************************************************)
EXTENDS Integers, Sequences, FiniteSets, TLC

\* ------------------------------------------------------------ bounds
MaxRecords == 3    \* the paths file has 0..MaxRecords rows
MaxThreads == 2    \* CPU_THREADS ranges over 1..MaxThreads
MaxCap == 2        \* link capacities range over 1..MaxCap
MaxDemand == 2     \* traffic demands range over 1..MaxDemand
MaxPaths == 2      \* a flow has 1..MaxPaths candidate paths
Denom == 2         \* solver grid: a PathRatio takes the values k/Denom

\* ------------------------------------------------------------ rationals
RECURSIVE Gcd(_, _)
Gcd(a, b) == IF b = 0 THEN a ELSE Gcd(b, a % b)
Abs(n) == IF n < 0 THEN -n ELSE n
\* the fraction n/d (d > 0) in lowest terms
Rat(n, d) == LET g == Gcd(Abs(n), d) IN <<n \div g, d \div g>>
RZero == <<0, 1>>
RAdd(a, b) == Rat(a[1] * b[2] + b[1] * a[2], a[2] * b[2])
RMul(a, b) == Rat(a[1] * b[1], a[2] * b[2])
RDiv(a, b) == Rat(a[1] * b[2], a[2] * b[1])
REq(a, b) == a[1] * b[2] = b[1] * a[2]
RLe(a, b) == a[1] * b[2] <= b[1] * a[2]
RLt(a, b) == a[1] * b[2] < b[1] * a[2]

RECURSIVE RSum(_, _)
\* sum of the rationals f[k], k in S
RSum(f, S) ==
  IF S = {} THEN RZero
  ELSE LET k == CHOOSE x \in S : TRUE IN RAdd(f[k], RSum(f, S \ {k}))

RECURSIVE Fact(_)
Fact(n) == IF n <= 1 THEN 1 ELSE n * Fact(n - 1)

\* ------------------------------------------------------------ inputs
\* Router identifiers are strings; a string is a sequence of characters.
NodeA == <<"R", "0", "0", "0", "1">>
NodeB == <<"R", "0", "0", "0", "2">>
NodeC == <<"R", "0", "0", "0", "3">>

\* data.py readLinks: linkName = linkStart + ";" + linkEnd
readLinksName(linkStart, linkEnd) == linkStart \o <<";">> \o linkEnd
\* a link key that is the two endpoint identifiers put together
concatName(linkStart, linkEnd) == linkStart \o linkEnd

LinkOrder ==
  << concatName(NodeA, NodeC), concatName(NodeA, NodeB), readLinksName(NodeB, NodeC) >>
LinkKeys == {LinkOrder[i] : i \in 1..Len(LinkOrder)}

\* the endpoints each link key of the input stands for
Endpoints(link) ==
  IF link = concatName(NodeA, NodeC) THEN <<NodeA, NodeC>>
  ELSE IF link = concatName(NodeA, NodeB) THEN <<NodeA, NodeB>>
  ELSE <<NodeB, NodeC>>

CandidatePaths == << <<NodeA, NodeC>>, <<NodeA, NodeB, NodeC>>, <<NodeA, NodeB>> >>
Min(a, b) == IF a <= b THEN a ELSE b
PathLists == {SubSeq(CandidatePaths, 1, k) : k \in 1..Min(MaxPaths, Len(CandidatePaths))}

FlowOrder == <<"f1", "f2">>
FlowIds == {"f1", "f2"}

Dicts(K, V) == UNION {[D -> V] : D \in SUBSET K}

LinearOptimizationModel == {"averageUtilization", "maxUtilization", "squaredUtilization"}
Models == LinearOptimizationModel \cup {"invalid"}

\* GRB status codes; TIME_LIMIT stands for every status that is neither of the first two
OPTIMAL == "OPTIMAL"
INFEASIBLE == "INFEASIBLE"
TIME_LIMIT == "TIME_LIMIT"
NotSolved == "LOADED"

VARIABLES
  model, links, flows, traffic,   \* the arguments of runLinearOptimizationModel
  pc,                             \* position in runLinearOptimizationModel
  mvars,                          \* variables registered with the solver model m
  objective,                      \* objective registered with m, or NoObjective
  constrs,                        \* constraints registered with m, in order
  linkQueue, trafficQueue,        \* what the two for loops still have to visit
  file,                           \* what m.write put on disk, or NoFile
  solveCount,                     \* number of m.optimize() calls
  status,                         \* m.status
  solution,                       \* solved variable values (var -> rational)
  valuesRead, iisComputed, iisNames, statusLogged,
  objTotalLinkUtil,               \* totalLinkUtil as assigned on lines 113-117
  totalLinkUtil,                  \* totalLinkUtil as logged on line 141
  linkUtilLog,                    \* links logged on line 138
  error,                          \* exception that ended the run
  returned,                       \* what the call handed back to its caller
  CPU_THREADS,                    \* data.py lines 23-27
  records,                        \* dataFlows: the rows of the paths file
  chunks,                         \* readFlows' chunks
  processed, results,             \* chunks the pool has grouped, and their results
  grouped_flows,                  \* the merged results
  readFlowsResult,                \* the flows dictionary readFlows returns
  rpc                             \* position in readFlows

optVars == << model, links, flows, traffic, pc, mvars, objective, constrs,
              linkQueue, trafficQueue, file, solveCount, status, solution,
              valuesRead, iisComputed, iisNames, statusLogged,
              objTotalLinkUtil, totalLinkUtil, linkUtilLog, error, returned >>
flowVars == << CPU_THREADS, records, chunks, processed, results, grouped_flows,
               readFlowsResult, rpc >>
vars == << optVars, flowVars >>

NoObjective == [kind |-> "none"]
NoFile == [written |-> FALSE]
NoValue == <<>>
NotReturned == "running"
None == "None"

\* ------------------------------------------------------------ solver model
PR(sd, pathNum) == <<"PathRatios", sd, pathNum>>
UT(link) == <<"Utilization", link>>
MU == <<"MaxUtilization">>

\* line 61: the index list of path_ratios
PathRatios ==
  {v \in {PR(sd, pathNum) : sd \in DOMAIN flows, pathNum \in 0..MaxPaths} :
     v[3] < Len(flows[v[2]])}

\* line 77: linkTuple = tuple((link[:5], link[5:]))
SplitAt == 5
linkTuple(link) ==
  << SubSeq(link, 1, Min(SplitAt, Len(link))), SubSeq(link, SplitAt + 1, Len(link)) >>

\* line 80: linkTuple in zip(path[:-1], path[1:])
InPath(pair, path) == \E i \in 1..(Len(path) - 1) : <<path[i], path[i + 1]>> = pair

PathOf(v) == flows[v[2]][v[3] + 1]

\* lines 78-83: a term of link_flow reads traffic[sd] only when the link is on the path
LinkFlowKeyError(link) ==
  \E v \in PathRatios : InPath(linkTuple(link), PathOf(v)) /\ v[2] \notin DOMAIN traffic

\* lines 78-83: link_flow as a linear expression, variable -> coefficient
link_flow(link) ==
  [v \in PathRatios |->
     IF InPath(linkTuple(link), PathOf(v)) THEN traffic[v[2]] ELSE 0]

Constr(name, lhs, div, sense, rhsConst, rhsVar, rhsCoef) ==
  [name |-> name, lhs |-> lhs, div |-> div, sense |-> sense,
   rhsConst |-> rhsConst, rhsVar |-> rhsVar, rhsCoef |-> rhsCoef]

\* line 85
CapConstr(link) ==
  Constr(<<"cap", link>>, link_flow(link), 1, "<=", links[link], NoValue, 0)

\* UtilConstr with the division by the capacity left out of the maxUtilization row
UtilConstr_noDivision(link) ==
  IF model = "maxUtilization"
  THEN Constr(<<"util", link>>, link_flow(link), 1, "<=", 0, MU, 1)
  ELSE Constr(<<"util", link>>, link_flow(link), 1, "==", 0, UT(link), links[link])

\* lines 87-95
UtilConstr(link) ==
  IF model = "maxUtilization"
  THEN Constr(<<"util", link>>, link_flow(link), links[link], "<=", 0, MU, 1)
  ELSE Constr(<<"util", link>>, link_flow(link), 1, "==", 0, UT(link), links[link])

\* line 98: path_ratios.sum(sd, '*') == 1
SplitConstr(sd) ==
  Constr(<<"traffic_split", sd>>,
         [v \in PathRatios |-> IF v[2] = sd THEN 1 ELSE 0], 1, "==", 1, NoValue, 0)

\* ------------------------------------------------------------ evaluation
LhsValue(c, a) ==
  RDiv(RSum([v \in DOMAIN c.lhs |-> RMul(Rat(c.lhs[v], 1), a[v])], DOMAIN c.lhs),
       Rat(c.div, 1))

RhsValue(c, a) ==
  IF c.rhsVar = NoValue THEN Rat(c.rhsConst, 1)
  ELSE RAdd(Rat(c.rhsConst, 1), RMul(Rat(c.rhsCoef, 1), a[c.rhsVar]))

Satisfies(a, c) ==
  IF c.sense = "<=" THEN RLe(LhsValue(c, a), RhsValue(c, a))
  ELSE REq(LhsValue(c, a), RhsValue(c, a))

Registered == {constrs[i] : i \in 1..Len(constrs)}

\* Gurobi variables have lower bound 0 by default
Feasible(a) ==
  /\ \A v \in DOMAIN a : RLe(RZero, a[v])
  /\ \A c \in Registered : Satisfies(a, c)

ObjValue(a) ==
  IF objective.kind = "linear"
  THEN RSum([v \in DOMAIN objective.coef |-> RMul(objective.coef[v], a[v])],
            DOMAIN objective.coef)
  ELSE IF objective.kind = "quadratic"
  THEN RSum([v \in objective.squares |-> RMul(a[v], a[v])], objective.squares)
  ELSE RZero

\* ------------------------------------------------------------ the solver
\* The grid of the solver's answers: PathRatios k/Denom, MaxUtilization k/MuDenom.
\* Every utilization a grid assignment of PathRatios produces is a multiple of
\* 1/MuDenom.
MuDenom == Denom * Fact(MaxCap)
RatioGrid == [PathRatios -> {Rat(k, Denom) : k \in 0..Denom}]
MuGrid == {Rat(k, MuDenom) : k \in 0..(MuDenom + 1)}

UtilConstrOf(v) == CHOOSE c \in Registered : c.rhsVar = v

\* A Utilization variable is fixed by its equality constraint:
\* link_flow == capacity * utilization
Extend(r, mu) ==
  [v \in mvars |->
     IF v \in DOMAIN r THEN r[v]
     ELSE IF v = MU THEN mu
     ELSE IF \E c \in Registered : c.rhsVar = v
          THEN RDiv(LhsValue(UtilConstrOf(v), r), Rat(UtilConstrOf(v).rhsCoef, 1))
          ELSE RZero]

Candidates ==
  {Extend(r, mu) : r \in RatioGrid, mu \in (IF MU \in mvars THEN MuGrid ELSE {RZero})}

FeasibleSet == {a \in Candidates : Feasible(a)}

Minimisers ==
  LET vals == {ObjValue(a) : a \in FeasibleSet}
      best == CHOOSE v \in vals : \A w \in vals : RLe(v, w)
  IN {a \in FeasibleSet : ObjValue(a) = best}

\* ------------------------------------------------------------ result extraction
\* lines 131-136: link_flow recomputed from the solved PathRatios
SolvedLinkFlow(link, a) ==
  RSum([v \in PathRatios |->
          IF InPath(linkTuple(link), PathOf(v))
          THEN RMul(a[v], Rat(traffic[v[2]], 1)) ELSE RZero], PathRatios)

\* lines 137-139: link_flow / capacity * 100
LinkUtilPercent(link, a) ==
  RMul(RDiv(SolvedLinkFlow(link, a), Rat(links[link], 1)), Rat(100, 1))

\* lines 113, 115, 117
ObjectiveTotalLinkUtil(a) ==
  IF model = "maxUtilization" THEN RMul(a[MU], Rat(100, 1))
  ELSE RMul(RDiv(ObjValue(a), Rat(Cardinality(DOMAIN links), 1)), Rat(100, 1))

\* AverageLinkUtil without the reset of line 128: the sum starts from lines 113-117
AverageLinkUtil_noReset(a) ==
  RDiv(RAdd(ObjectiveTotalLinkUtil(a),
            RSum([l \in DOMAIN links |-> LinkUtilPercent(l, a)], DOMAIN links)),
       Rat(Cardinality(DOMAIN links), 1))

\* lines 128-140
AverageLinkUtil(a) ==
  RDiv(RSum([l \in DOMAIN links |-> LinkUtilPercent(l, a)], DOMAIN links),
       Rat(Cardinality(DOMAIN links), 1))

\* line 137
Threshold == 10
LoggedLinks(a) ==
  {l \in DOMAIN links : RLe(Rat(Threshold, 1), LinkUtilPercent(l, a))}

\* ------------------------------------------------------------ readFlows at rest
FlowsIdle ==
  /\ CPU_THREADS = 1
  /\ records = <<>>
  /\ chunks = <<>>
  /\ processed = {}
  /\ results = <<>>
  /\ grouped_flows = <<>>
  /\ readFlowsResult = <<>>
  /\ rpc = "idle"

QueueOf(order, keys) == SelectSeq(order, LAMBDA k : k \in keys)

\* ------------------------------------------------------------ runLinearOptimizationModel
Init ==
  /\ model \in Models
  /\ links \in Dicts(LinkKeys, 1..MaxCap)
  /\ flows \in Dicts(FlowIds, PathLists)
  /\ traffic \in Dicts(FlowIds, 1..MaxDemand)
  /\ pc = "start"
  /\ mvars = {}
  /\ objective = NoObjective
  /\ constrs = <<>>
  /\ linkQueue = QueueOf(LinkOrder, DOMAIN links)
  /\ trafficQueue = QueueOf(FlowOrder, DOMAIN traffic)
  /\ file = NoFile
  /\ solveCount = 0
  /\ status = NotSolved
  /\ solution = NoValue
  /\ valuesRead = FALSE
  /\ iisComputed = FALSE
  /\ iisNames = {}
  /\ statusLogged = FALSE
  /\ objTotalLinkUtil = NoValue
  /\ totalLinkUtil = NoValue
  /\ linkUtilLog = {}
  /\ error = "none"
  /\ returned = NotReturned
  /\ FlowsIdle

\* line 61
AddPathRatios ==
  /\ pc = "start"
  /\ mvars' = mvars \cup PathRatios
  /\ pc' = "match"
  /\ UNCHANGED << model, links, flows, traffic, objective, constrs, linkQueue,
                  trafficQueue, file, solveCount, status, solution, valuesRead,
                  iisComputed, iisNames, statusLogged, objTotalLinkUtil,
                  totalLinkUtil, linkUtilLog, error, returned, flowVars >>

Utilization == {UT(l) : l \in DOMAIN links}

\* lines 63-65
AverageObjective ==
  [kind |-> "linear", coef |-> [v \in Utilization |-> Rat(1, links[v[2]])]]

\* lines 66-68
MaxObjective == [kind |-> "linear", coef |-> [v \in {MU} |-> Rat(1, 1)]]

\* lines 69-71
SquaredObjective == [kind |-> "quadratic", squares |-> Utilization]

\* lines 62-71
SetObjective ==
  /\ pc = "match"
  /\ model \in LinearOptimizationModel
  /\ \/ /\ model = "averageUtilization"
        /\ mvars' = mvars \cup Utilization
        /\ objective' = AverageObjective
     \/ /\ model = "maxUtilization"
        /\ mvars' = mvars \cup {MU}
        /\ objective' = MaxObjective
     \/ /\ model = "squaredUtilization"
        /\ mvars' = mvars \cup Utilization
        /\ objective' = SquaredObjective
  /\ pc' = "build"
  /\ UNCHANGED << model, links, flows, traffic, constrs, linkQueue,
                  trafficQueue, file, solveCount, status, solution, valuesRead,
                  iisComputed, iisNames, statusLogged, objTotalLinkUtil,
                  totalLinkUtil, linkUtilLog, error, returned, flowVars >>

\* lines 72-73
InvalidModel ==
  /\ pc = "match"
  /\ model \notin LinearOptimizationModel
  /\ error' = "ValueError"
  /\ pc' = "failed"
  /\ UNCHANGED << model, links, flows, traffic, mvars, objective, constrs,
                  linkQueue, trafficQueue, file, solveCount, status, solution,
                  valuesRead, iisComputed, iisNames, statusLogged,
                  objTotalLinkUtil, totalLinkUtil, linkUtilLog, returned,
                  flowVars >>

\* lines 76-95, one iteration
LinkConstraints ==
  /\ pc = "build"
  /\ linkQueue # <<>>
  /\ LET link == Head(linkQueue) IN
       \/ /\ LinkFlowKeyError(link)
          /\ error' = "KeyError"
          /\ pc' = "failed"
          /\ UNCHANGED << constrs, linkQueue >>
       \/ /\ ~LinkFlowKeyError(link)
          /\ constrs' = constrs \o <<CapConstr(link), UtilConstr(link)>>
          /\ linkQueue' = Tail(linkQueue)
          /\ UNCHANGED << error, pc >>
  /\ UNCHANGED << model, links, flows, traffic, mvars, objective,
                  trafficQueue, file, solveCount, status, solution, valuesRead,
                  iisComputed, iisNames, statusLogged, objTotalLinkUtil,
                  totalLinkUtil, linkUtilLog, returned, flowVars >>

\* lines 97-98, one iteration
TrafficSplit ==
  /\ pc = "build"
  /\ linkQueue = <<>>
  /\ trafficQueue # <<>>
  /\ constrs' = Append(constrs, SplitConstr(Head(trafficQueue)))
  /\ trafficQueue' = Tail(trafficQueue)
  /\ UNCHANGED << model, links, flows, traffic, pc, mvars, objective, linkQueue,
                  file, solveCount, status, solution, valuesRead,
                  iisComputed, iisNames, statusLogged, objTotalLinkUtil,
                  totalLinkUtil, linkUtilLog, error, returned, flowVars >>

\* line 100: m.write(f"{model}.lp")
WrittenFile ==
  [written |-> TRUE, name |-> <<model, ".lp">>, mvars |-> mvars,
   objective |-> objective, constrs |-> constrs]

\* WriteModel that goes on to the solve without writing the file
WriteModel_skipped ==
  /\ pc = "build"
  /\ linkQueue = <<>>
  /\ trafficQueue = <<>>
  /\ pc' = "optimize"
  /\ UNCHANGED << model, links, flows, traffic, mvars, objective, constrs,
                  linkQueue, trafficQueue, file, solveCount, status, solution,
                  valuesRead, iisComputed, iisNames, statusLogged,
                  objTotalLinkUtil, totalLinkUtil, linkUtilLog, error, returned,
                  flowVars >>

WriteModel ==
  /\ pc = "build"
  /\ linkQueue = <<>>
  /\ trafficQueue = <<>>
  /\ file' = WrittenFile
  /\ pc' = "optimize"
  /\ UNCHANGED << model, links, flows, traffic, mvars, objective, constrs,
                  linkQueue, trafficQueue, solveCount, status, solution,
                  valuesRead, iisComputed, iisNames, statusLogged,
                  objTotalLinkUtil, totalLinkUtil, linkUtilLog, error, returned,
                  flowVars >>

\* line 104: m.optimize()
Optimize ==
  /\ pc = "optimize"
  /\ solveCount' = solveCount + 1
  /\ \/ /\ status' = OPTIMAL
        /\ solution' \in Minimisers
     \/ /\ status' = INFEASIBLE
        /\ FeasibleSet = {}
        /\ solution' = NoValue
     \/ /\ status' = TIME_LIMIT
        /\ solution' = NoValue
  /\ pc' = "results"
  /\ UNCHANGED << model, links, flows, traffic, mvars, objective, constrs,
                  linkQueue, trafficQueue, file, valuesRead, iisComputed,
                  iisNames, statusLogged, objTotalLinkUtil, totalLinkUtil,
                  linkUtilLog, error, returned, flowVars >>

\* lines 109-141: an empty links dictionary divides by len(links) = 0, on line
\* 113 or 117 for the two objective-derived totals and on line 140 otherwise
ExtractOptimal ==
  /\ pc = "results"
  /\ status = OPTIMAL
  /\ valuesRead' = TRUE
  /\ IF DOMAIN links = {}
     THEN /\ error' = "ZeroDivisionError"
          /\ pc' = "failed"
          /\ objTotalLinkUtil' =
               IF model = "maxUtilization" THEN ObjectiveTotalLinkUtil(solution)
               ELSE objTotalLinkUtil
          /\ UNCHANGED << totalLinkUtil, linkUtilLog, returned >>
     ELSE /\ objTotalLinkUtil' = ObjectiveTotalLinkUtil(solution)
          /\ totalLinkUtil' = AverageLinkUtil(solution)
          /\ linkUtilLog' = LoggedLinks(solution)
          /\ returned' = None
          /\ pc' = "done"
          /\ UNCHANGED error
  /\ UNCHANGED << model, links, flows, traffic, mvars, objective, constrs,
                  linkQueue, trafficQueue, file, solveCount, status, solution,
                  iisComputed, iisNames, statusLogged, flowVars >>

\* m.computeIIS(): an irreducible inconsistent subsystem of the registered constraints
FeasibleFor(S) ==
  \E a \in Candidates :
    /\ \A v \in DOMAIN a : RLe(RZero, a[v])
    /\ \A c \in S : Satisfies(a, c)

RECURSIVE DeletionFilter(_, _)
\* the deletion filter: a constraint is dropped when the rest stays infeasible
DeletionFilter(kept, todo) ==
  IF todo = <<>> THEN kept
  ELSE LET rest == (kept \cup {todo[i] : i \in 2..Len(todo)})
       IN IF FeasibleFor(rest)
          THEN DeletionFilter(kept \cup {Head(todo)}, Tail(todo))
          ELSE DeletionFilter(kept, Tail(todo))

IIS == DeletionFilter({}, constrs)

\* lines 142-148
ReportInfeasible ==
  /\ pc = "results"
  /\ status = INFEASIBLE
  /\ iisComputed' = TRUE
  /\ iisNames' = {c.name : c \in IIS}
  /\ returned' = None
  /\ pc' = "done"
  /\ UNCHANGED << model, links, flows, traffic, mvars, objective, constrs,
                  linkQueue, trafficQueue, file, solveCount, status, solution,
                  valuesRead, statusLogged, objTotalLinkUtil, totalLinkUtil,
                  linkUtilLog, error, flowVars >>

\* ReportStatus that also reads the solved values
ReportStatus_extracts ==
  /\ pc = "results"
  /\ status \notin {OPTIMAL, INFEASIBLE}
  /\ statusLogged' = TRUE
  /\ valuesRead' = TRUE
  /\ returned' = None
  /\ pc' = "done"
  /\ UNCHANGED << model, links, flows, traffic, mvars, objective, constrs,
                  linkQueue, trafficQueue, file, solveCount, status, solution,
                  iisComputed, iisNames, objTotalLinkUtil,
                  totalLinkUtil, linkUtilLog, error, flowVars >>

\* lines 149-150
ReportStatus ==
  /\ pc = "results"
  /\ status \notin {OPTIMAL, INFEASIBLE}
  /\ statusLogged' = TRUE
  /\ returned' = None
  /\ pc' = "done"
  /\ UNCHANGED << model, links, flows, traffic, mvars, objective, constrs,
                  linkQueue, trafficQueue, file, solveCount, status, solution,
                  valuesRead, iisComputed, iisNames, objTotalLinkUtil,
                  totalLinkUtil, linkUtilLog, error, flowVars >>

Next ==
  \/ AddPathRatios
  \/ SetObjective
  \/ InvalidModel
  \/ LinkConstraints
  \/ TrafficSplit
  \/ WriteModel
  \/ Optimize
  \/ ExtractOptimal
  \/ ReportInfeasible
  \/ ReportStatus

Spec == Init /\ [][Next]_vars

\* ------------------------------------------------------------ claims
Names == {constrs[i].name : i \in 1..Len(constrs)}
Hundred == Rat(100, 1)
NumLinks == Cardinality(DOMAIN links)

\* C1: an unrecognized variant fails with ValueError, and at that moment no
\* variable, constraint or objective is registered, no file written, no solve run.
C1_InvalidModelRegistersNothing ==
  error = "ValueError" =>
    /\ model \notin LinearOptimizationModel
    /\ mvars = {}
    /\ constrs = <<>>
    /\ objective = NoObjective
    /\ ~file.written
    /\ solveCount = 0

\* C2: once the problem is built, the traffic_split constraints are exactly one
\* per flow of flows, each the sum of that flow's PathRatios equal to 1.
C2_OneSplitPerFlow ==
  file.written =>
    /\ \A f \in DOMAIN flows :
         Cardinality({i \in 1..Len(constrs) : constrs[i] = SplitConstr(f)}) = 1
    /\ {n \in Names : n[1] = "traffic_split"} =
         {<<"traffic_split", f>> : f \in DOMAIN flows}

\* C3: in every registered constraint cap_L the left side is at most
\* capacity(L), and the coefficient of PathRatio[f, p] is demand[f] exactly when
\* the endpoints of L are consecutive nodes of path p of f, and 0 otherwise.
C3_CapacityCoefficients ==
  \A i \in 1..Len(constrs) :
    LET c == constrs[i] IN
      c.name[1] = "cap" =>
        /\ c.sense = "<=" /\ c.div = 1
        /\ c.rhsVar = NoValue /\ c.rhsConst = links[c.name[2]]
        /\ \A v \in PathRatios :
             v[2] \in DOMAIN traffic =>
               c.lhs[v] = IF InPath(Endpoints(c.name[2]), PathOf(v))
                          THEN traffic[v[2]] ELSE 0

\* C4: a Network Model with no link or no flow is rejected before the solve.
C4_EmptyModelRejected ==
  (model \in LinearOptimizationModel /\ (DOMAIN links = {} \/ DOMAIN flows = {}))
    => solveCount = 0 /\ pc \notin {"optimize", "results", "done"}

Solved == solveCount > 0
Finished == pc = "done" \/ (pc = "failed" /\ Solved)
BoolToNat(b) == IF b THEN 1 ELSE 0

\* C5: solved values are read iff the status is OPTIMAL; on INFEASIBLE only the
\* IIS is computed and its constraint names reported; on any other status only
\* the status is reported; a finished run took exactly one of the three branches.
C5_ExtractionIffOptimal ==
  /\ valuesRead => status = OPTIMAL
  /\ iisComputed => status = INFEASIBLE /\ iisNames \subseteq Names
  /\ statusLogged => status \notin {OPTIMAL, INFEASIBLE}
  /\ status # OPTIMAL =>
       /\ objTotalLinkUtil = NoValue /\ totalLinkUtil = NoValue
       /\ linkUtilLog = {}
  /\ status # INFEASIBLE => iisNames = {}
  /\ Finished =>
       /\ BoolToNat(valuesRead) + BoolToNat(iisComputed) + BoolToNat(statusLogged) = 1
       /\ valuesRead <=> status = OPTIMAL
       /\ iisComputed <=> status = INFEASIBLE

C5_Witness ==
  /\ pc = "done" /\ status = INFEASIBLE
  /\ iisComputed /\ iisNames # {} /\ ~valuesRead /\ ~statusLogged

\* C7: on an OPTIMAL solve the call returns the total link utilization, the
\* average link utilization and the utilization of each link.
C7_ReturnsUtilization ==
  (pc = "done" /\ status = OPTIMAL) =>
    /\ returned # None
    /\ returned = <<objTotalLinkUtil, totalLinkUtil,
                    [l \in DOMAIN links |-> LinkUtilPercent(l, solution)]>>

\* C8: under maxUtilization every assignment that satisfies the registered
\* constraints has maxUtil x 100 >= the recomputed utilization percentage of
\* every link, and in the minimising assignment maxUtil x 100 is the largest of them.
C8_MaxUtilBoundsLinkUtil ==
  model = "maxUtilization" =>
    /\ pc = "optimize" =>
         \A a \in FeasibleSet : \A l \in DOMAIN links :
            RLe(LinkUtilPercent(l, a), RMul(a[MU], Hundred))
    /\ (status = OPTIMAL /\ DOMAIN links # {}) =>
         /\ \A l \in DOMAIN links :
              RLe(LinkUtilPercent(l, solution), RMul(solution[MU], Hundred))
         /\ \E l \in DOMAIN links :
              REq(LinkUtilPercent(l, solution), RMul(solution[MU], Hundred))

C8_Witness ==
  /\ model = "maxUtilization" /\ status = OPTIMAL /\ pc = "done"
  /\ \E l1, l2 \in DOMAIN links :
       /\ RLt(RZero, LinkUtilPercent(l1, solution))
       /\ RLt(LinkUtilPercent(l1, solution), LinkUtilPercent(l2, solution))
       /\ links[l2] > 1
       /\ REq(LinkUtilPercent(l2, solution), RMul(solution[MU], Hundred))

C9_Case == pc = "done" /\ status = OPTIMAL /\ model = "averageUtilization"

\* C9 as stated: on OPTIMAL with averageUtilization the reported average link
\* utilization equals objectiveValue / numberOfLinks x 100.
C9_ReportedIsObjectiveBased ==
  C9_Case =>
    REq(totalLinkUtil, RMul(RDiv(ObjValue(solution), Rat(NumLinks, 1)), Hundred))

\* C9 amended: the reported average link utilization equals the sum of the
\* solved util[L] (not divided by capacity) / numberOfLinks x 100; the value
\* objectiveValue / numberOfLinks x 100 is computed first and overwritten.
C9_ReportedIsMeanUtilization ==
  C9_Case =>
    /\ REq(totalLinkUtil,
           RMul(RDiv(RSum([l \in DOMAIN links |-> solution[UT(l)]], DOMAIN links),
                     Rat(NumLinks, 1)), Hundred))
    /\ REq(objTotalLinkUtil,
           RMul(RDiv(ObjValue(solution), Rat(NumLinks, 1)), Hundred))

C9_Witness ==
  /\ C9_Case
  /\ \E l \in DOMAIN links : links[l] > 1 /\ RLt(RZero, solution[UT(l)])
  /\ ~REq(totalLinkUtil, objTotalLinkUtil)

\* C10: the problem file is written after every variable, the objective and
\* every constraint are registered and before the solve, and the solve runs
\* exactly once whatever status it returns.
C10_WriteThenSolveOnce ==
  /\ solveCount <= 1
  /\ Solved <=> (pc \in {"results", "done"} \/ (pc = "failed" /\ status # NotSolved))
  /\ Solved => file.written
  /\ pc = "optimize" => file.written /\ ~Solved
  /\ file.written =>
       /\ file.name = <<model, ".lp">>
       /\ file.mvars = mvars /\ file.objective = objective /\ file.constrs = constrs
       /\ PathRatios \subseteq mvars /\ objective # NoObjective
       /\ \A l \in DOMAIN links : {<<"cap", l>>, <<"util", l>>} \subseteq Names
       /\ \A sd \in DOMAIN traffic : <<"traffic_split", sd>> \in Names

C10_Witness ==
  /\ pc = "done" /\ status = INFEASIBLE /\ solveCount = 1
  /\ file.written /\ Len(file.constrs) > 2

\* ============================================================ readFlows
\* Strings are sequences of characters.
RouterA == <<"A">>
RouterB == <<"B">>
Timestamps == {"t1", "t2"}
PathStarts == {RouterA}
PathEnds == {RouterA, RouterB}
\* the path column: a bracketed, ";"-separated list of routers
PathColumn ==
  { <<"[", "A", "]">>, <<"[", "A", ";", "B", "]">>, <<"[", "R", "1", "]">> }

\* line 67
flowNameOf(pathStart, pathEnd) == pathStart \o <<";">> \o pathEnd

Rows ==
  {[timestamp |-> t, flowName |-> flowNameOf(s, e), path |-> p] :
     t \in Timestamps, s \in PathStarts, e \in PathEnds, p \in PathColumn}

RECURSIVE SeqsUpTo(_, _)
SeqsUpTo(S, n) ==
  IF n = 0 THEN {<<>>}
  ELSE LET shorter == SeqsUpTo(S, n - 1)
       IN shorter \cup {Append(q, x) : q \in {r \in shorter : Len(r) = n - 1}, x \in S}

\* line 76
chunkSize == Len(records) \div CPU_THREADS

\* lines 80-87: chunk number rangeIndex (from 0)
Chunk(rangeIndex) ==
  LET i == rangeIndex * chunkSize IN
    IF rangeIndex = CPU_THREADS - 1
    THEN SubSeq(records, i + 1, Len(records))
    ELSE SubSeq(records, i + 1, Min(i + chunkSize, Len(records)))

\* lines 34-36
_groupFunc(x) == [j \in 1..Len(x) |-> SubSeq(x[j], 2, Len(x[j]) - 1)]

KeyOf(row) == <<row.timestamp, row.flowName>>

\* lines 30-31: groupby(["timestamp", "flowName"])["path"].apply(group_func)
_processGroup(chunk) ==
  [k \in {KeyOf(chunk[j]) : j \in 1..Len(chunk)} |->
     _groupFunc(LET rows == SelectSeq(chunk, LAMBDA row : KeyOf(row) = k)
                IN [j \in 1..Len(rows) |-> rows[j].path])]

\* lines 39-40: a later result's value replaces an earlier one's for the same key
RECURSIVE _mergeResults(_)
_mergeResults(rs) ==
  IF rs = <<>> THEN <<>>
  ELSE LET front == _mergeResults(SubSeq(rs, 1, Len(rs) - 1))
           last == rs[Len(rs)]
       IN [k \in (DOMAIN front) \cup (DOMAIN last) |->
             IF k \in DOMAIN last THEN last[k] ELSE front[k]]

RECURSIVE Split(_, _)
\* str.split(sep) for a one-character sep
Split(str, sep) ==
  IF \A j \in 1..Len(str) : str[j] # sep THEN <<str>>
  ELSE LET j == CHOOSE x \in 1..Len(str) :
                  str[x] = sep /\ \A y \in 1..(x - 1) : str[y] # sep
       IN <<SubSeq(str, 1, j - 1)>> \o Split(SubSeq(str, j + 1, Len(str)), sep)

\* line 109, for one (timestamp, flowName) group
Kept(flowName, paths) ==
  LET sd == Split(flowName, ";") IN
    \E j \in 1..Len(paths) : Len(paths[j]) > 1 /\ sd[1] # sd[2]

\* lines 103-112
ConstructFlows(grouped) ==
  LET keptKeys == {k \in DOMAIN grouped : Kept(k[2], grouped[k])} IN
    [t \in {k[1] : k \in keptKeys} |->
       [f \in {k[2] : k \in {kk \in keptKeys : kk[1] = t}} |-> grouped[<<t, f>>]]]

OptIdle ==
  /\ model = "invalid"
  /\ links = <<>>
  /\ flows = <<>>
  /\ traffic = <<>>
  /\ pc = "idle"
  /\ mvars = {}
  /\ objective = NoObjective
  /\ constrs = <<>>
  /\ linkQueue = <<>>
  /\ trafficQueue = <<>>
  /\ file = NoFile
  /\ solveCount = 0
  /\ status = NotSolved
  /\ solution = NoValue
  /\ valuesRead = FALSE
  /\ iisComputed = FALSE
  /\ iisNames = {}
  /\ statusLogged = FALSE
  /\ objTotalLinkUtil = NoValue
  /\ totalLinkUtil = NoValue
  /\ linkUtilLog = {}
  /\ error = "none"
  /\ returned = NotReturned

\* lines 62-70: the file is read
InitFlows ==
  /\ OptIdle
  /\ CPU_THREADS \in 1..MaxThreads
  /\ records \in SeqsUpTo(Rows, MaxRecords)
  /\ chunks = <<>>
  /\ processed = {}
  /\ results = <<>>
  /\ grouped_flows = <<>>
  /\ readFlowsResult = <<>>
  /\ rpc = "chunk"

\* lines 76-87
MakeChunks ==
  /\ rpc = "chunk"
  /\ chunks' = [n \in 1..CPU_THREADS |-> Chunk(n - 1)]
  /\ results' = [n \in 1..CPU_THREADS |-> <<>>]
  /\ rpc' = "pool"
  /\ UNCHANGED << CPU_THREADS, records, processed, grouped_flows,
                  readFlowsResult, optVars >>

\* lines 92-93: a worker finishes one chunk; pool.map keeps the results in the
\* order of the chunks whatever the order the workers finish in
ProcessChunk ==
  /\ rpc = "pool"
  /\ \E n \in (1..Len(chunks)) \ processed :
       /\ results' = [results EXCEPT ![n] = _processGroup(chunks[n])]
       /\ processed' = processed \cup {n}
  /\ UNCHANGED << CPU_THREADS, records, chunks, grouped_flows, readFlowsResult,
                  rpc, optVars >>

\* line 96
MergeResults ==
  /\ rpc = "pool"
  /\ processed = 1..Len(chunks)
  /\ grouped_flows' = _mergeResults(results)
  /\ rpc' = "construct"
  /\ UNCHANGED << CPU_THREADS, records, chunks, processed, results,
                  readFlowsResult, optVars >>

\* lines 103-120
ReturnFlows ==
  /\ rpc = "construct"
  /\ readFlowsResult' = ConstructFlows(grouped_flows)
  /\ rpc' = "done"
  /\ UNCHANGED << CPU_THREADS, records, chunks, processed, results,
                  grouped_flows, optVars >>

NextFlows ==
  \/ MakeChunks
  \/ ProcessChunk
  \/ MergeResults
  \/ ReturnFlows

SpecFlows == InitFlows /\ [][NextFlows]_vars

Reorder(rs, perm) == [j \in 1..Len(rs) |-> rs[perm[j]]]
Perms(n) == {f \in [1..n -> 1..n] : \A a, b \in 1..n : a # b => f[a] # f[b]}

\* C6: merging the workers' partial results is commutative and associative:
\* every ordering of the partial results merges to the same mapping, also when
\* a (timestamp, flowName) key occurs in more than one partial result.
C6_MergeOrderIndependent ==
  processed = 1..Len(chunks) =>
    /\ \A perm \in Perms(Len(results)) :
         _mergeResults(Reorder(results, perm)) = _mergeResults(results)
    /\ \A j \in 0..Len(results) :
         _mergeResults(<< _mergeResults(SubSeq(results, 1, j)),
                          _mergeResults(SubSeq(results, j + 1, Len(results))) >>)
           = _mergeResults(results)

\* the routers of a path string, and the two ends of a flow name
RoutersOf(path) == Split(path, ";")

\* C11: every path kept in the dictionary readFlows returns is a route of at
\* least 2 routers, and no kept flow starts and ends at the same router.
C11_KeptPathsAreRoutes ==
  rpc = "done" =>
    \A t \in DOMAIN readFlowsResult : \A f \in DOMAIN readFlowsResult[t] :
      /\ Split(f, ";")[1] # Split(f, ";")[2]
      /\ \A j \in 1..Len(readFlowsResult[t][f]) :
           Len(RoutersOf(readFlowsResult[t][f][j])) >= 2

RECURSIVE Concat(_)
\* the sequences of a sequence put end to end
Concat(ss) == IF ss = <<>> THEN <<>> ELSE Head(ss) \o Concat(Tail(ss))

\* C12: the chunks hold every record exactly once, and grouping each chunk and
\* merging the results gives, for each (timestamp, flowName) key, the list of
\* all paths recorded for it: the same mapping as grouping the unchunked
\* records, also when the records of one key fall into two chunks.
C12_ChunkedGroupingIsGrouping ==
  /\ rpc # "chunk" => Len(chunks) = CPU_THREADS /\ Concat(chunks) = records
  /\ rpc \in {"construct", "done"} => grouped_flows = _processGroup(records)

====
